---- MODULE Spec2Model ----
(***************************************************************************)
(* Model of the short-link registry (UrlShortenerService) and the event    *)
(* log (Logger) of src/lib/url-shortener.ts, as they run in a browser tab  *)
(* (typeof window !== "undefined"), with the redirect route RedirectPage   *)
(* that calls them.                                                        *)
(*                                                                         *)
(* Representation                                                          *)
(*   - a short code is a sequence of one-character strings, so that the    *)
(*     length and character tests of the code can be computed;             *)
(*   - a JavaScript Map is a sequence of [key, val] entries in insertion   *)
(*     order;                                                              *)
(*   - a JavaScript `undefined` string is UndefinedStr (codes) or          *)
(*     Undefined (plain strings), an absent timestamp is NoTime;           *)
(*   - timestamps are integers (milliseconds); `now` is the last value a   *)
(*     `new Date()` returned;                                              *)
(*   - a LogEntry keeps level, action and the context fields shortCode and *)
(*     the numeric field (count / totalClicks); its random id, timestamp   *)
(*     and message text are not represented.                               *)
(***************************************************************************)
EXTENDS Integers, Sequences, FiniteSets, TLC

VARIABLES
    urls,       \* UrlShortenerService.urls : Map<string, ShortenedUrl>
    storage,    \* localStorage["shortened-urls"]: NoSnapshot or the stored entries
    logs,       \* Logger.logs, newest first
    appLogs,    \* localStorage["app-logs"]: NoSnapshot or the stored entries
    now,        \* the clock: last value new Date() returned to the registry
    writable,   \* whether localStorage.setItem currently succeeds
    result,     \* the last call and what it returned
    pending     \* the shortenUrl call that is inside its do-while loop, or NoCall

vars == <<urls, storage, logs, appLogs, now, writable, result, pending>>

----------------------------------------------------------------------------
(* Values *)

Undefined == "undefined"
UndefinedStr == <<"undefined">>
NoTime == 0 - 1
\* localStorage.getItem returns null for a key that was never set
NoSnapshot == [present |-> FALSE, entries |-> <<>>]

\* no call is running: the page is idle between two handlers
NoCall == [active |-> FALSE, url |-> Undefined, candidate |-> UndefinedStr]

\* a stored text JSON.parse throws on
Unparsable == [present |-> TRUE, entries |-> <<>>, text |-> "{"]

Lower == {"a","b","c","d","e","f","g","h","i","j","k","l","m",
          "n","o","p","q","r","s","t","u","v","w","x","y","z"}
Upper == {"A","B","C","D","E","F","G","H","I","J","K","L","M",
          "N","O","P","Q","R","S","T","U","V","W","X","Y","Z"}
Digits == <<"0","1","2","3","4","5","6","7","8","9">>
DigitSet == {Digits[i] : i \in 1..10}

\* generateShortCode: const chars = "abc...xyzABC...XYZ0123456789"
chars ==
    <<"a","b","c","d","e","f","g","h","i","j","k","l","m",
      "n","o","p","q","r","s","t","u","v","w","x","y","z",
      "A","B","C","D","E","F","G","H","I","J","K","L","M",
      "N","O","P","Q","R","S","T","U","V","W","X","Y","Z",
      "0","1","2","3","4","5","6","7","8","9">>

GeneratedLength == 6
MinCodeLength == 3
MaxCodeLength == 20
MaxHistory == 100
maxLogs == 1000
TopCount == 10

----------------------------------------------------------------------------
(* Map<string, ShortenedUrl> as a sequence of entries *)

MapKeys(m) == {m[i].key : i \in 1..Len(m)}

MapHas(m, k) == \E i \in 1..Len(m) : m[i].key = k

MapIndex(m, k) == CHOOSE i \in 1..Len(m) : m[i].key = k

MapGet(m, k) == m[MapIndex(m, k)].val

\* Map.prototype.set: an existing key keeps its position, a new key is appended
MapSet(m, k, v) ==
    IF MapHas(m, k)
    THEN [m EXCEPT ![MapIndex(m, k)] = [key |-> k, val |-> v]]
    ELSE Append(m, [key |-> k, val |-> v])

MapDeleteKeeps(m, k) == m

MapDeleteFirst(m, k) ==
    IF MapHas(m, k) THEN Tail(m) ELSE m

\* Map.prototype.delete
MapDelete(m, k) ==
    IF MapHas(m, k)
    THEN LET i == MapIndex(m, k)
         IN SubSeq(m, 1, i - 1) \o SubSeq(m, i + 1, Len(m))
    ELSE m

MapValues(m) == [i \in 1..Len(m) |-> m[i].val]

----------------------------------------------------------------------------
(* Validation *)

\* the strings the URL constructor accepts, among the inputs of the model
WellFormedUrls == {"https://example.com", "https://x.com"}

isValidUrl(url) == url \in WellFormedUrls

isValidShortCodeUpTo21(code) ==
    /\ Len(code) >= MinCodeLength
    /\ Len(code) <= MaxCodeLength + 1
    /\ \A i \in 1..Len(code) : code[i] \in (Lower \cup Upper \cup DigitSet)

\* /^[a-zA-Z0-9]{3,20}$/.test(code)
isValidShortCode(code) ==
    /\ Len(code) >= MinCodeLength
    /\ Len(code) <= MaxCodeLength
    /\ \A i \in 1..Len(code) : code[i] \in (Lower \cup Upper \cup DigitSet)

\* JavaScript truthiness of an optional string argument
Truthy(s) == s # UndefinedStr /\ Len(s) > 0

\* generateShortCode, given the six values of Math.floor(Math.random() * 62)
generateShortCode(draws) == [i \in 1..GeneratedLength |-> chars[draws[i] + 1]]

----------------------------------------------------------------------------
(* JSON snapshot of the mapping *)

DigitValue(ch) == (CHOOSE i \in 1..10 : Digits[i] = ch) - 1

RECURSIVE DigitsLess(_, _)
\* lexicographic order of two digit sequences of the same length
DigitsLess(a, b) ==
    IF Len(a) = 0 THEN FALSE
    ELSE IF a[1] # b[1] THEN DigitValue(a[1]) < DigitValue(b[1])
    ELSE DigitsLess(Tail(a), Tail(b))

\* numeric order of two canonical numeric strings
IndexLess(a, b) ==
    \/ Len(a) < Len(b)
    \/ Len(a) = Len(b) /\ DigitsLess(a, b)

MaxArrayIndex == <<"4","2","9","4","9","6","7","2","9","4">>

\* a property key that is an array index: a canonical numeric string below 2^32 - 1
IsArrayIndex(k) ==
    /\ Len(k) > 0
    /\ \A i \in 1..Len(k) : k[i] \in DigitSet
    /\ (Len(k) > 1 => k[1] # "0")
    /\ \/ Len(k) < Len(MaxArrayIndex)
       \/ Len(k) = Len(MaxArrayIndex) /\ ~DigitsLess(MaxArrayIndex, k)

RECURSIVE InsertByIndex(_, _)
InsertByIndex(e, sorted) ==
    IF sorted = <<>> THEN <<e>>
    ELSE IF IndexLess(e.key, sorted[1].key) THEN <<e>> \o sorted
    ELSE <<sorted[1]>> \o InsertByIndex(e, Tail(sorted))

RECURSIVE SortByIndex(_)
SortByIndex(es) ==
    IF es = <<>> THEN <<>>
    ELSE InsertByIndex(es[1], SortByIndex(Tail(es)))

\* own property keys of an object: array indices ascending, then the other
\* string keys in the order they were created
PropertyOrder(es) ==
    SortByIndex(SelectSeq(es, LAMBDA e : IsArrayIndex(e.key)))
        \o SelectSeq(es, LAMBDA e : ~IsArrayIndex(e.key))

\* JSON.stringify of the Map itself, which has no own properties: "{}"
StringifyMapObject(m) == [present |-> TRUE, entries |-> <<>>]

\* JSON.stringify(Object.fromEntries(this.urls))
Stringify(m) == [present |-> TRUE, entries |-> PropertyOrder(m)]

\* new Map(Object.entries(JSON.parse(stored)))
Parse(snapshot) == PropertyOrder(snapshot.entries)

----------------------------------------------------------------------------
(* Logger.  A logger state is a record [logs, appLogs] threaded through the  *)
(* calls one handler makes.                                                  *)

NoCode == UndefinedStr
NoCount == 0 - 1

createLogEntry(level, action, shortCode, count) ==
    [level |-> level, action |-> action,
     context |-> [shortCode |-> shortCode, count |-> count],
     userId |-> "anonymous-user"]

persistLogNoCap(ls, entry, w) ==
    LET unshifted == <<entry>> \o ls.logs
    IN [logs |-> unshifted,
        appLogs |-> IF w THEN [present |-> TRUE, entries |-> unshifted]
                    ELSE ls.appLogs]

\* Logger.persistLog; w: whether localStorage.setItem succeeds
persistLog(ls, entry, w) ==
    LET unshifted == <<entry>> \o ls.logs
        kept == IF Len(unshifted) > maxLogs
                THEN SubSeq(unshifted, 1, maxLogs)
                ELSE unshifted
    IN [logs |-> kept,
        appLogs |-> IF w THEN [present |-> TRUE, entries |-> kept]
                    ELSE ls.appLogs]

info(ls, action, shortCode, count, w) ==
    persistLog(ls, createLogEntry("INFO", action, shortCode, count), w)

warn(ls, action, shortCode, count, w) ==
    persistLog(ls, createLogEntry("WARN", action, shortCode, count), w)

error(ls, action, shortCode, count, w) ==
    persistLog(ls, createLogEntry("ERROR", action, shortCode, count), w)

debug(ls, action, shortCode, count, w) ==
    persistLog(ls, createLogEntry("DEBUG", action, shortCode, count), w)

\* Logger.getLogs: a copy of the buffer
getLogs(ls) == ls.logs

\* Logger.loadLogs
loadLogs(ls) ==
    IF ls.appLogs.present
    THEN [ls EXCEPT !.logs = ls.appLogs.entries]
    ELSE ls

clearLogsKeepsSnapshot(ls, w) ==
    info([logs |-> <<>>, appLogs |-> ls.appLogs], "CLEAR_LOGS", NoCode, NoCount, w)

\* Logger.clearLogs: localStorage.removeItem does not depend on the quota
clearLogs(ls, w) ==
    info([logs |-> <<>>, appLogs |-> NoSnapshot], "CLEAR_LOGS", NoCode, NoCount, w)

\* Logger.init
init(ls, w) == info(loadLogs(ls), "LOGGER_INIT", NoCode, maxLogs, w)

----------------------------------------------------------------------------
(* Registry persistence.  A service state is a record [urls, storage, ls].  *)

saveToStorageSilent(m, st, ls, w) ==
    IF w
    THEN [urls |-> m, storage |-> Stringify(m),
          ls |-> debug(ls, "SAVE_STORAGE", NoCode, Len(m), w)]
    ELSE [urls |-> m, storage |-> st, ls |-> ls]

\* UrlShortenerService.saveToStorage
saveToStorage(m, st, ls, w) ==
    IF w
    THEN [urls |-> m, storage |-> Stringify(m),
          ls |-> debug(ls, "SAVE_STORAGE", NoCode, Len(m), w)]
    ELSE [urls |-> m, storage |-> st,
          ls |-> error(ls, "SAVE_STORAGE_ERROR", NoCode, NoCount, w)]

loadFromStorageQuiet(st, ls, w) ==
    IF ~st.present THEN [urls |-> <<>>, ls |-> ls]
    ELSE IF st = Unparsable THEN [urls |-> <<>>, ls |-> ls]
    ELSE LET m == Parse(st)
         IN [urls |-> m, ls |-> info(ls, "LOAD_STORAGE", NoCode, Len(m), w)]

\* UrlShortenerService.loadFromStorage: nothing stored, a text JSON.parse
\* throws on (the catch branch), or a snapshot
loadFromStorage(st, ls, w) ==
    IF ~st.present THEN [urls |-> <<>>, ls |-> ls]
    ELSE IF st = Unparsable
    THEN [urls |-> <<>>, ls |-> error(ls, "LOAD_STORAGE_ERROR", NoCode, NoCount, w)]
    ELSE LET m == Parse(st)
         IN [urls |-> m, ls |-> info(ls, "LOAD_STORAGE", NoCode, Len(m), w)]

\* module evaluation in a fresh page: the logger module first (new Logger,
\* logger.init()), then new UrlShortenerService()
Construct(st, al, w) ==
    LET l0 == init([logs |-> <<>>, appLogs |-> al], w)
        loaded == loadFromStorage(st, l0, w)
    IN [urls |-> loaded.urls,
        ls |-> info(loaded.ls, "SERVICE_INIT", NoCode, Len(loaded.urls), w)]

----------------------------------------------------------------------------
(* UrlShortenerService methods, as functions from the state before the call  *)
(* and the inputs to the state after it and the value returned               *)

CodeTakenNever(m, customCode) == FALSE

\* this.urls.has(customCode)
CodeTaken(m, customCode) == MapHas(m, customCode)

NewRecordCustomCodeAsShortCode(id, originalUrl, shortCode, customCode, t) ==
    [id |-> id,
     originalUrl |-> originalUrl,
     shortCode |-> customCode,
     customCode |-> Truthy(customCode),
     createdAt |-> t,
     clicks |-> 0,
     lastAccessed |-> NoTime,
     clickHistory |-> <<>>]

NewRecordAccessedAtCreation(id, originalUrl, shortCode, customCode, t) ==
    [id |-> id,
     originalUrl |-> originalUrl,
     shortCode |-> shortCode,
     customCode |-> Truthy(customCode),
     createdAt |-> t,
     clicks |-> 0,
     lastAccessed |-> t,
     clickHistory |-> <<>>]

\* the ShortenedUrl object shortenUrl builds
NewRecord(id, originalUrl, shortCode, customCode, t) ==
    [id |-> id,
     originalUrl |-> originalUrl,
     shortCode |-> shortCode,
     customCode |-> Truthy(customCode),
     createdAt |-> t,
     clicks |-> 0,
     lastAccessed |-> NoTime,
     clickHistory |-> <<>>]

shortenUrlCodeFirst(m, st, ls, w, originalUrl, customCode, draws, id, t) ==
    LET l1 == info(ls, "SHORTEN_REQUEST", customCode, NoCount, w)
    IN
    IF Truthy(customCode) /\ ~isValidShortCode(customCode)
    THEN [urls |-> m, storage |-> st,
          ls |-> warn(l1, "INVALID_SHORTCODE", customCode, NoCount, w),
          ret |-> [success |-> FALSE,
                   error |-> "Custom shortcode must be 3-20 alphanumeric characters",
                   data |-> <<>>]]
    ELSE IF ~isValidUrl(originalUrl)
    THEN [urls |-> m, storage |-> st,
          ls |-> warn(l1, "INVALID_URL", NoCode, NoCount, w),
          ret |-> [success |-> FALSE, error |-> "Invalid URL format", data |-> <<>>]]
    ELSE IF Truthy(customCode) /\ CodeTaken(m, customCode)
    THEN [urls |-> m, storage |-> st,
          ls |-> warn(l1, "SHORTCODE_EXISTS", customCode, NoCount, w),
          ret |-> [success |-> FALSE, error |-> "Custom shortcode already exists",
                   data |-> <<>>]]
    ELSE
        LET shortCode == IF Truthy(customCode) THEN customCode
                         ELSE generateShortCode(draws)
            l2 == IF Truthy(customCode) THEN l1
                  ELSE debug(l1, "SHORTCODE_GENERATED", shortCode, NoCount, w)
            shortenedUrl == NewRecord(id, originalUrl, shortCode, customCode, t)
            saved == saveToStorage(MapSet(m, shortCode, shortenedUrl), st, l2, w)
        IN [urls |-> saved.urls, storage |-> saved.storage,
            ls |-> info(saved.ls, "SHORTEN_SUCCESS", shortCode, NoCount, w),
            ret |-> [success |-> TRUE, error |-> Undefined, data |-> <<shortenedUrl>>]]

shortenUrlQuietExists(m, st, ls, w, originalUrl, customCode, draws, id, t) ==
    LET l1 == info(ls, "SHORTEN_REQUEST", customCode, NoCount, w)
    IN
    IF ~isValidUrl(originalUrl)
    THEN [urls |-> m, storage |-> st,
          ls |-> warn(l1, "INVALID_URL", NoCode, NoCount, w),
          ret |-> [success |-> FALSE, error |-> "Invalid URL format", data |-> <<>>]]
    ELSE IF Truthy(customCode) /\ ~isValidShortCode(customCode)
    THEN [urls |-> m, storage |-> st,
          ls |-> warn(l1, "INVALID_SHORTCODE", customCode, NoCount, w),
          ret |-> [success |-> FALSE,
                   error |-> "Custom shortcode must be 3-20 alphanumeric characters",
                   data |-> <<>>]]
    ELSE IF Truthy(customCode) /\ CodeTaken(m, customCode)
    THEN [urls |-> m, storage |-> st,
          ls |-> l1,
          ret |-> [success |-> FALSE, error |-> "Custom shortcode already exists",
                   data |-> <<>>]]
    ELSE
        LET shortCode == IF Truthy(customCode) THEN customCode
                         ELSE generateShortCode(draws)
            l2 == IF Truthy(customCode) THEN l1
                  ELSE debug(l1, "SHORTCODE_GENERATED", shortCode, NoCount, w)
            shortenedUrl == NewRecord(id, originalUrl, shortCode, customCode, t)
            saved == saveToStorage(MapSet(m, shortCode, shortenedUrl), st, l2, w)
        IN [urls |-> saved.urls, storage |-> saved.storage,
            ls |-> info(saved.ls, "SHORTEN_SUCCESS", shortCode, NoCount, w),
            ret |-> [success |-> TRUE, error |-> Undefined, data |-> <<shortenedUrl>>]]

\* shortenUrl.  draws: the random draws of the accepted generateShortCode()
\* call; id: the value of Math.random().toString(36).substr(2, 9);
\* t: the value of new Date() at line 159
shortenUrl(m, st, ls, w, originalUrl, customCode, draws, id, t) ==
    LET l1 == info(ls, "SHORTEN_REQUEST", customCode, NoCount, w)
    IN
    IF ~isValidUrl(originalUrl)
    THEN [urls |-> m, storage |-> st,
          ls |-> warn(l1, "INVALID_URL", NoCode, NoCount, w),
          ret |-> [success |-> FALSE, error |-> "Invalid URL format", data |-> <<>>]]
    ELSE IF Truthy(customCode) /\ ~isValidShortCode(customCode)
    THEN [urls |-> m, storage |-> st,
          ls |-> warn(l1, "INVALID_SHORTCODE", customCode, NoCount, w),
          ret |-> [success |-> FALSE,
                   error |-> "Custom shortcode must be 3-20 alphanumeric characters",
                   data |-> <<>>]]
    ELSE IF Truthy(customCode) /\ CodeTaken(m, customCode)
    THEN [urls |-> m, storage |-> st,
          ls |-> warn(l1, "SHORTCODE_EXISTS", customCode, NoCount, w),
          ret |-> [success |-> FALSE, error |-> "Custom shortcode already exists",
                   data |-> <<>>]]
    ELSE
        LET shortCode == IF Truthy(customCode) THEN customCode
                         ELSE generateShortCode(draws)
            l2 == IF Truthy(customCode) THEN l1
                  ELSE debug(l1, "SHORTCODE_GENERATED", shortCode, NoCount, w)
            shortenedUrl == NewRecord(id, originalUrl, shortCode, customCode, t)
            saved == saveToStorage(MapSet(m, shortCode, shortenedUrl), st, l2, w)
        IN [urls |-> saved.urls, storage |-> saved.storage,
            ls |-> info(saved.ls, "SHORTEN_SUCCESS", shortCode, NoCount, w),
            ret |-> [success |-> TRUE, error |-> Undefined, data |-> <<shortenedUrl>>]]

LoopAcceptsFirstDraw(m, customCode, draws) == TRUE

\* the do-while loop of shortenUrl ends with a candidate that is not a key
LoopAccepts(m, customCode, draws) ==
    Truthy(customCode) \/ ~MapHas(m, generateShortCode(draws))

drawCandidateOnce(m, draws) ==
    [shortCode |-> generateShortCode(draws), again |-> FALSE]

\* one pass of the do-while loop of shortenUrl: a candidate is drawn, and the
\* loop goes round again while the candidate is a key
drawCandidate(m, draws) ==
    [shortCode |-> generateShortCode(draws),
     again |-> MapHas(m, generateShortCode(draws))]

\* shortenUrl after its loop has ended with shortCode: the code is logged,
\* the record built, stored and saved, and the success returned
storeGenerated(m, st, ls, w, originalUrl, shortCode, id, t) ==
    LET l2 == debug(ls, "SHORTCODE_GENERATED", shortCode, NoCount, w)
        shortenedUrl == NewRecord(id, originalUrl, shortCode, UndefinedStr, t)
        saved == saveToStorage(MapSet(m, shortCode, shortenedUrl), st, l2, w)
    IN [urls |-> saved.urls, storage |-> saved.storage,
        ls |-> info(saved.ls, "SHORTEN_SUCCESS", shortCode, NoCount, w),
        ret |-> [success |-> TRUE, error |-> Undefined, data |-> <<shortenedUrl>>]]

getUrlNoLog(m, ls, w, shortCode) ==
    IF MapHas(m, shortCode)
    THEN [ls |-> ls, ret |-> <<MapGet(m, shortCode)>>]
    ELSE [ls |-> ls, ret |-> <<>>]

\* getUrl: <<record>> on a hit, <<>> for null
getUrl(m, ls, w, shortCode) ==
    LET l1 == debug(ls, "URL_LOOKUP", shortCode, NoCount, w)
    IN IF MapHas(m, shortCode)
       THEN [ls |-> l1, ret |-> <<MapGet(m, shortCode)>>]
       ELSE [ls |-> warn(l1, "URL_NOT_FOUND", shortCode, NoCount, w), ret |-> <<>>]

KeepFirst(history) ==
    IF Len(history) > MaxHistory
    THEN SubSeq(history, 1, MaxHistory)
    ELSE history

KeepAll(history) == history

\* url.clickHistory.slice(-100) when longer than 100
KeepLast(history) ==
    IF Len(history) > MaxHistory
    THEN SubSeq(history, Len(history) - MaxHistory + 1, Len(history))
    ELSE history

recordClickSavesFirst(m, st, ls, w, shortCode, userAgent, referrer, t1, t2) ==
    LET l1 == info(ls, "RECORD_CLICK", shortCode, NoCount, w)
        early == saveToStorage(m, st, l1, w)
    IN
    IF ~MapHas(m, shortCode)
    THEN [urls |-> m, storage |-> early.storage,
          ls |-> warn(early.ls, "CLICK_RECORD_FAILED", shortCode, NoCount, w),
          ret |-> FALSE]
    ELSE
        LET url == MapGet(m, shortCode)
            clicked == [url EXCEPT
                          !.clicks = @ + 1,
                          !.lastAccessed = t1,
                          !.clickHistory =
                              KeepLast(Append(@, [timestamp |-> t2,
                                                  userAgent |-> userAgent,
                                                  referrer |-> referrer]))]
            saved == saveToStorage(MapSet(m, shortCode, clicked), st, l1, w)
        IN [urls |-> saved.urls, storage |-> saved.storage,
            ls |-> info(saved.ls, "CLICK_RECORDED", shortCode, clicked.clicks, w),
            ret |-> TRUE]

\* recordClick.  t1, t2: the values of new Date() at lines 209 and 211
recordClick(m, st, ls, w, shortCode, userAgent, referrer, t1, t2) ==
    LET l1 == info(ls, "RECORD_CLICK", shortCode, NoCount, w)
    IN
    IF ~MapHas(m, shortCode)
    THEN [urls |-> m, storage |-> st,
          ls |-> warn(l1, "CLICK_RECORD_FAILED", shortCode, NoCount, w),
          ret |-> FALSE]
    ELSE
        LET url == MapGet(m, shortCode)
            clicked == [url EXCEPT
                          !.clicks = @ + 1,
                          !.lastAccessed = t1,
                          !.clickHistory =
                              KeepLast(Append(@, [timestamp |-> t2,
                                                  userAgent |-> userAgent,
                                                  referrer |-> referrer]))]
            saved == saveToStorage(MapSet(m, shortCode, clicked), st, l1, w)
        IN [urls |-> saved.urls, storage |-> saved.storage,
            ls |-> info(saved.ls, "CLICK_RECORDED", shortCode, clicked.clicks, w),
            ret |-> TRUE]

RECURSIVE InsertDescendingDropsTies(_, _)
InsertDescendingDropsTies(e, sorted) ==
    IF sorted = <<>> THEN <<e>>
    ELSE IF sorted[1].rank < e.rank THEN <<e>> \o sorted
    ELSE IF sorted[1].rank = e.rank THEN sorted
    ELSE <<sorted[1]>> \o InsertDescendingDropsTies(e, Tail(sorted))

RECURSIVE InsertDescending(_, _)
\* e goes before the first element with a strictly smaller rank
InsertDescending(e, sorted) ==
    IF sorted = <<>> THEN <<e>>
    ELSE IF sorted[1].rank < e.rank THEN <<e>> \o sorted
    ELSE <<sorted[1]>> \o InsertDescending(e, Tail(sorted))

RECURSIVE SortRanked(_, _)
SortRanked(ranked, acc) ==
    IF ranked = <<>> THEN acc
    ELSE SortRanked(Tail(ranked), InsertDescending(ranked[1], acc))

\* Array.prototype.sort((a, b) => rank(b) - rank(a)): descending and stable
SortDescending(ranked) ==
    LET sorted == SortRanked(ranked, <<>>)
    IN [i \in 1..Len(sorted) |-> sorted[i].item]

SliceFromEnd(s, n) == IF Len(s) > n THEN SubSeq(s, Len(s) - n + 1, Len(s)) ELSE s

\* Array.prototype.slice(0, n)
Slice(s, n) == IF Len(s) > n THEN SubSeq(s, 1, n) ELSE s

AllUrlsUnsorted(m) == MapValues(m)

\* the array getAllUrls returns
AllUrls(m) ==
    SortDescending([i \in 1..Len(m) |-> [rank |-> m[i].val.createdAt, item |-> m[i].val]])

getAllUrls(m, ls, w) ==
    [ls |-> debug(ls, "GET_ALL_URLS", NoCode, Len(m), w), ret |-> AllUrls(m)]

RECURSIVE SumClicks(_)
\* allUrls.reduce((sum, url) => sum + url.clicks, 0)
SumClicks(records) ==
    IF records = <<>> THEN 0
    ELSE records[1].clicks + SumClicks(Tail(records))

\* the UrlStats object getStats returns
Stats(m) ==
    LET allUrls == AllUrls(m)
        clicked == SelectSeq(allUrls, LAMBDA url : url.clicks > 0)
        accessed == SelectSeq(allUrls, LAMBDA url : url.lastAccessed # NoTime)
    IN [totalUrls |-> Len(allUrls),
        totalClicks |-> SumClicks(allUrls),
        topUrls |-> Slice(SortDescending(
            [i \in 1..Len(clicked) |-> [rank |-> clicked[i].clicks, item |-> clicked[i]]]),
            TopCount),
        recentActivity |-> Slice(SortDescending(
            [i \in 1..Len(accessed) |->
                [rank |-> accessed[i].lastAccessed, item |-> accessed[i]]]),
            TopCount)]

getStats(m, ls, w) ==
    LET l1 == debug(ls, "GET_STATS", NoCode, NoCount, w)
        l2 == getAllUrls(m, l1, w).ls
        stats == Stats(m)
    IN [ls |-> info(l2, "STATS_GENERATED", NoCode, stats.totalUrls, w), ret |-> stats]

deleteUrlNoSave(m, st, ls, w, shortCode) ==
    LET l1 == info(ls, "DELETE_REQUEST", shortCode, NoCount, w)
        existed == MapHas(m, shortCode)
    IN
    IF existed
    THEN [urls |-> MapDelete(m, shortCode), storage |-> st,
          ls |-> info(l1, "DELETE_SUCCESS", shortCode, NoCount, w),
          ret |-> existed]
    ELSE [urls |-> m, storage |-> st,
          ls |-> warn(l1, "DELETE_FAILED", shortCode, NoCount, w),
          ret |-> existed]

\* deleteUrl
deleteUrl(m, st, ls, w, shortCode) ==
    LET l1 == info(ls, "DELETE_REQUEST", shortCode, NoCount, w)
        existed == MapHas(m, shortCode)
    IN
    IF existed
    THEN LET saved == saveToStorage(MapDelete(m, shortCode), st, l1, w)
         IN [urls |-> saved.urls, storage |-> saved.storage,
             ls |-> info(saved.ls, "DELETE_SUCCESS", shortCode, NoCount, w),
             ret |-> existed]
    ELSE [urls |-> m, storage |-> st,
          ls |-> warn(l1, "DELETE_FAILED", shortCode, NoCount, w),
          ret |-> existed]

----------------------------------------------------------------------------
(* RedirectPage, the route of one short code: what its effect does on mount, *)
(* and what the page then shows                                              *)

\* the page before its effect has found a record
NoPage == [notFound |-> FALSE, totalClicks |-> NoCount, redirect |-> Undefined]

\* the effect of RedirectPage.  foundUrl is the object getUrl returned: the
\* object the Map holds, which recordClick updates in place, so that it is
\* read here as it is after the click.  totalClicks is the value logged with
\* REDIRECT_CLICK_RECORDED and rendered as "{url.clicks + 1} total clicks";
\* redirect is the address the countdown was started for.
redirectEffect(m, st, ls, w, shortCode, userAgent, referrer, t1, t2) ==
    LET l1 == info(ls, "REDIRECT_PAGE_ACCESS", shortCode, NoCount, w)
        looked == getUrl(m, l1, w, shortCode)
    IN
    IF looked.ret = <<>>
    THEN [urls |-> m, storage |-> st,
          ls |-> warn(looked.ls, "REDIRECT_NOT_FOUND", shortCode, NoCount, w),
          ret |-> [NoPage EXCEPT !.notFound = TRUE]]
    ELSE
        LET clicked == recordClick(m, st, looked.ls, w, shortCode, userAgent, referrer, t1, t2)
            foundUrl == MapGet(clicked.urls, shortCode)
        IN [urls |-> clicked.urls, storage |-> clicked.storage,
            ls |-> info(clicked.ls, "REDIRECT_CLICK_RECORDED", shortCode,
                        foundUrl.clicks + 1, w),
            ret |-> [notFound |-> FALSE,
                     totalClicks |-> foundUrl.clicks + 1,
                     redirect |-> foundUrl.originalUrl]]

----------------------------------------------------------------------------
(* Actions: one call of a method, or one event of the environment *)

Call(op, url, code, ret) == [op |-> op, url |-> url, code |-> code, ret |-> ret]

\* a fresh browser profile: both localStorage keys unset, the page just loaded
Init ==
    LET c == Construct(NoSnapshot, NoSnapshot, TRUE)
    IN /\ urls = c.urls
       /\ storage = NoSnapshot
       /\ logs = c.ls.logs
       /\ appLogs = c.ls.appLogs
       /\ now = 0
       /\ writable = TRUE
       /\ result = Call("construct", Undefined, NoCode, TRUE)
       /\ pending = NoCall

ShortenUrl(originalUrl, customCode, draws, id, t) ==
    /\ LoopAccepts(urls, customCode, draws)
    /\ LET r == shortenUrl(urls, storage, [logs |-> logs, appLogs |-> appLogs],
                           writable, originalUrl, customCode, draws, id, t)
       IN /\ urls' = r.urls
          /\ storage' = r.storage
          /\ logs' = r.ls.logs
          /\ appLogs' = r.ls.appLogs
          /\ result' = Call("shortenUrl", originalUrl, customCode, r.ret)
          /\ now' = IF r.ret.success THEN t ELSE now
    /\ UNCHANGED <<writable, pending>>

\* shortenUrl(originalUrl) with a well-formed URL and no custom code, up to
\* the do-while loop: the request is logged, the checks pass
BeginShorten(originalUrl) ==
    /\ ~pending.active
    /\ isValidUrl(originalUrl)
    /\ LET l1 == info([logs |-> logs, appLogs |-> appLogs], "SHORTEN_REQUEST",
                      UndefinedStr, NoCount, writable)
       IN logs' = l1.logs /\ appLogs' = l1.appLogs
    /\ pending' = [active |-> TRUE, url |-> originalUrl, candidate |-> UndefinedStr]
    /\ UNCHANGED <<urls, storage, now, writable, result>>

\* one pass of the loop; the pass that draws a free code runs the call to its
\* end
Draw(draws, id, t) ==
    /\ pending.active
    /\ LET c == drawCandidate(urls, draws)
       IN IF c.again
          THEN /\ pending' = [pending EXCEPT !.candidate = c.shortCode]
               /\ UNCHANGED <<urls, storage, logs, appLogs, now, writable, result>>
          ELSE LET r == storeGenerated(urls, storage, [logs |-> logs, appLogs |-> appLogs],
                                       writable, pending.url, c.shortCode, id, t)
               IN /\ urls' = r.urls
                  /\ storage' = r.storage
                  /\ logs' = r.ls.logs
                  /\ appLogs' = r.ls.appLogs
                  /\ result' = Call("shortenUrl", pending.url, UndefinedStr, r.ret)
                  /\ now' = t
                  /\ pending' = NoCall
                  /\ UNCHANGED writable

GetUrl(shortCode) ==
    /\ LET r == getUrl(urls, [logs |-> logs, appLogs |-> appLogs], writable, shortCode)
       IN /\ logs' = r.ls.logs
          /\ appLogs' = r.ls.appLogs
          /\ result' = Call("getUrl", Undefined, shortCode, r.ret)
    /\ UNCHANGED <<urls, storage, now, writable, pending>>

RecordClick(shortCode, userAgent, referrer, t1, t2) ==
    /\ LET r == recordClick(urls, storage, [logs |-> logs, appLogs |-> appLogs],
                            writable, shortCode, userAgent, referrer, t1, t2)
       IN /\ urls' = r.urls
          /\ storage' = r.storage
          /\ logs' = r.ls.logs
          /\ appLogs' = r.ls.appLogs
          /\ result' = Call("recordClick", Undefined, shortCode, r.ret)
          /\ now' = IF r.ret THEN t2 ELSE now
    /\ UNCHANGED <<writable, pending>>

GetAllUrls ==
    /\ LET r == getAllUrls(urls, [logs |-> logs, appLogs |-> appLogs], writable)
       IN /\ logs' = r.ls.logs
          /\ appLogs' = r.ls.appLogs
          /\ result' = Call("getAllUrls", Undefined, NoCode, r.ret)
    /\ UNCHANGED <<urls, storage, now, writable, pending>>

GetStats ==
    /\ LET r == getStats(urls, [logs |-> logs, appLogs |-> appLogs], writable)
       IN /\ logs' = r.ls.logs
          /\ appLogs' = r.ls.appLogs
          /\ result' = Call("getStats", Undefined, NoCode, r.ret)
    /\ UNCHANGED <<urls, storage, now, writable, pending>>

DeleteUrl(shortCode) ==
    /\ LET r == deleteUrl(urls, storage, [logs |-> logs, appLogs |-> appLogs],
                          writable, shortCode)
       IN /\ urls' = r.urls
          /\ storage' = r.storage
          /\ logs' = r.ls.logs
          /\ appLogs' = r.ls.appLogs
          /\ result' = Call("deleteUrl", Undefined, shortCode, r.ret)
    /\ UNCHANGED <<now, writable, pending>>

\* a visit of the route /shortCode: the page mounts and its effect runs
Visit(shortCode, userAgent, referrer, t1, t2) ==
    /\ LET r == redirectEffect(urls, storage, [logs |-> logs, appLogs |-> appLogs],
                               writable, shortCode, userAgent, referrer, t1, t2)
       IN /\ urls' = r.urls
          /\ storage' = r.storage
          /\ logs' = r.ls.logs
          /\ appLogs' = r.ls.appLogs
          /\ result' = Call("visit", Undefined, shortCode, r.ret)
          /\ now' = IF r.ret.notFound THEN now ELSE t2
    /\ UNCHANGED <<writable, pending>>

\* a direct call of logger.info / warn / error / debug by a page
LogInfo(action, shortCode, count) ==
    /\ LET l == info([logs |-> logs, appLogs |-> appLogs], action, shortCode, count, writable)
       IN logs' = l.logs /\ appLogs' = l.appLogs
    /\ result' = Call("info", Undefined, shortCode, TRUE)
    /\ UNCHANGED <<urls, storage, now, writable, pending>>

LogWarn(action, shortCode, count) ==
    /\ LET l == warn([logs |-> logs, appLogs |-> appLogs], action, shortCode, count, writable)
       IN logs' = l.logs /\ appLogs' = l.appLogs
    /\ result' = Call("warn", Undefined, shortCode, TRUE)
    /\ UNCHANGED <<urls, storage, now, writable, pending>>

LogError(action, shortCode, count) ==
    /\ LET l == error([logs |-> logs, appLogs |-> appLogs], action, shortCode, count, writable)
       IN logs' = l.logs /\ appLogs' = l.appLogs
    /\ result' = Call("error", Undefined, shortCode, TRUE)
    /\ UNCHANGED <<urls, storage, now, writable, pending>>

LogDebug(action, shortCode, count) ==
    /\ LET l == debug([logs |-> logs, appLogs |-> appLogs], action, shortCode, count, writable)
       IN logs' = l.logs /\ appLogs' = l.appLogs
    /\ result' = Call("debug", Undefined, shortCode, TRUE)
    /\ UNCHANGED <<urls, storage, now, writable, pending>>

ClearLogs ==
    /\ LET l == clearLogs([logs |-> logs, appLogs |-> appLogs], writable)
       IN logs' = l.logs /\ appLogs' = l.appLogs
    /\ result' = Call("clearLogs", Undefined, NoCode, TRUE)
    /\ UNCHANGED <<urls, storage, now, writable, pending>>

\* the page is loaded again: both modules are evaluated anew
Reload ==
    /\ LET c == Construct(storage, appLogs, writable)
       IN /\ urls' = c.urls
          /\ logs' = c.ls.logs
          /\ appLogs' = c.ls.appLogs
    /\ result' = Call("construct", Undefined, NoCode, TRUE)
    /\ UNCHANGED <<storage, now, writable, pending>>

\* another script of the origin leaves a text under 'shortened-urls' that is
\* no JSON
CorruptStorage ==
    /\ storage # Unparsable
    /\ storage' = Unparsable
    /\ result' = Call("environment", Undefined, NoCode, FALSE)
    /\ UNCHANGED <<urls, logs, appLogs, now, writable, pending>>

\* the storage quota is reached, or space is freed again
SetWritable(w) ==
    /\ writable # w
    /\ writable' = w
    /\ result' = Call("environment", Undefined, NoCode, w)
    /\ UNCHANGED <<urls, storage, logs, appLogs, now, pending>>

----------------------------------------------------------------------------
(* Inputs and bounds *)

CodeAbc == <<"a","b","c">>
CodeTwo == <<"a","b">>
CodeDash == <<"a","-","c">>
Code20 == [i \in 1..20 |-> "x"]
Code21 == [i \in 1..21 |-> "x"]
CodeEmpty == <<>>

GoodUrl == "https://example.com"
BadUrl == "not a url"

RequestActions ==
    {"SHORTEN_REQUEST", "RECORD_CLICK", "DELETE_REQUEST", "URL_LOOKUP",
     "GET_STATS", "GET_ALL_URLS", "SERVICE_INIT"}

\* the number of calls the log retains
Calls(buffer) == Cardinality({i \in 1..Len(buffer) : buffer[i].action \in RequestActions})

GeneratedCode == generateShortCode(<<0, 0, 0, 0, 0, 0>>)

\* the values a new Date() can return next: the clock may have advanced
Clock == {now, now + 1}

----------------------------------------------------------------------------
(* Spec: the registry under creation, clicks and deletion, with a storage   *)
(* that may fill up                                                         *)

MaxCalls == 4

Draws == {<<0, 0, 0, 0, 0, 0>>, <<26, 61, 0, 52, 1, 35>>}
Ids == {"k3j9x0q1z"}
Requests == {<<GoodUrl, UndefinedStr>>, <<GoodUrl, CodeAbc>>}
\* recordClick callers: <<userAgent, referrer>>
Clients == {<<"Mozilla/5.0", "">>}
LookupCodes == {CodeAbc, GeneratedCode}

Budget == Calls(logs) <= MaxCalls

Next ==
    \/ \E r \in Requests, d \in Draws, id \in Ids, t \in Clock :
           Budget /\ ShortenUrl(r[1], r[2], d, id, t)
    \/ \E c \in LookupCodes, cl \in Clients :
           Budget /\ RecordClick(c, cl[1], cl[2], now, now)
    \/ \E c \in LookupCodes : Budget /\ DeleteUrl(c)
    \/ SetWritable(FALSE)

Spec == Init /\ [][Next]_vars

----------------------------------------------------------------------------
(* Properties of Spec *)

IsCall(op) == result'.op = op

Alphanumeric == Lower \cup Upper \cup DigitSet

Logged(action, shortCode) ==
    \E i \in 1..Len(logs) :
        logs[i].action = action /\ logs[i].context.shortCode = shortCode

\* C1: a shortenUrl call with a valid URL and a well-formed custom code
\* succeeds exactly when the code is not a key of the registry; a refused call
\* reports 'Custom shortcode already exists' and leaves the registry as it
\* was, so the code is free again once deleteUrl has removed it.
C1_CustomCodeTakenOnce ==
    [][(/\ IsCall("shortenUrl")
        /\ isValidUrl(result'.url)
        /\ Truthy(result'.code)
        /\ Len(result'.code) \in MinCodeLength..MaxCodeLength
        /\ \A i \in 1..Len(result'.code) : result'.code[i] \in Alphanumeric)
       => /\ result'.ret.success <=> ~(result'.code \in MapKeys(urls))
          /\ result'.ret.success =>
                /\ result'.code \in MapKeys(urls')
                /\ MapGet(urls', result'.code) = result'.ret.data[1]
          /\ ~result'.ret.success =>
                /\ result'.ret.error = "Custom shortcode already exists"
                /\ urls' = urls]_vars

\* the code was taken, refused, deleted and has just been taken again
C1_Witness ==
    /\ result.op = "shortenUrl"
    /\ result.code = CodeAbc
    /\ result.ret.success
    /\ Logged("SHORTCODE_EXISTS", CodeAbc)
    /\ Logged("DELETE_SUCCESS", CodeAbc)

\* C3: a shortenUrl call with a valid URL and no custom code succeeds with a
\* record whose shortCode has exactly 6 alphanumeric characters, was not a
\* key before the call, and whose customCode flag is false.
C3_GeneratedCodeFresh ==
    [][(IsCall("shortenUrl") /\ isValidUrl(result'.url) /\ result'.code = UndefinedStr)
       => /\ result'.ret.success
          /\ Len(result'.ret.data) = 1
          /\ LET record == result'.ret.data[1]
             IN /\ Len(record.shortCode) = 6
                /\ \A i \in 1..Len(record.shortCode) :
                       record.shortCode[i] \in Alphanumeric
                /\ ~(record.shortCode \in MapKeys(urls))
                /\ record.customCode = FALSE
                /\ record.shortCode \in MapKeys(urls')]_vars

\* a code was generated while another generated code was already registered
C3_Witness ==
    /\ result.op = "shortenUrl"
    /\ result.code = UndefinedStr
    /\ result.ret.success
    /\ \E i \in 1..Len(urls) :
           /\ ~urls[i].val.customCode
           /\ urls[i].key # result.ret.data[1].shortCode

\* C5: recordClick on a code that is not a key returns false and changes
\* neither the registry nor the persisted snapshot.
C5_UnknownClickNoOp ==
    [][(IsCall("recordClick") /\ ~(result'.code \in MapKeys(urls)))
       => /\ result'.ret = FALSE
          /\ urls' = urls
          /\ storage' = storage]_vars

\* a click on an unknown code while another record has clicks and the
\* snapshot is behind the registry
C5_Witness ==
    /\ result.op = "recordClick"
    /\ result.ret = FALSE
    /\ \E i \in 1..Len(urls) : urls[i].val.clicks > 0
    /\ storage # Stringify(urls)

\* C8: no two records share a shortCode, and every record is stored under
\* the key equal to its own shortCode.
C8_ShortCodesUnique ==
    /\ \A i, j \in 1..Len(urls) :
           urls[i].val.shortCode = urls[j].val.shortCode => i = j
    /\ \A i \in 1..Len(urls) : urls[i].key = urls[i].val.shortCode

\* two records, one of them under a code that was deleted and taken again
C8_Witness ==
    /\ Len(urls) = 2
    /\ \E i \in 1..Len(urls) : Logged("DELETE_SUCCESS", urls[i].key)

RECURSIVE ClicksOfKeys(_)
\* the clicks of the records stored under the keys ks, added up key by key
ClicksOfKeys(ks) ==
    IF ks = {} THEN 0
    ELSE LET k == CHOOSE x \in ks : TRUE
         IN MapGet(urls, k).clicks + ClicksOfKeys(ks \ {k})

\* C9: getStats().totalClicks is the sum of the clicks of the records of the
\* registry, which are the records getAllUrls() returns, and totalUrls is
\* their number.
C9_TotalsMatchRegistry ==
    /\ Stats(urls).totalClicks = ClicksOfKeys(MapKeys(urls))
    /\ Stats(urls).totalClicks = SumClicks(AllUrls(urls))
    /\ Stats(urls).totalUrls = Cardinality(MapKeys(urls))
    /\ Stats(urls).totalUrls = Len(AllUrls(urls))
    /\ {AllUrls(urls)[i] : i \in 1..Len(AllUrls(urls))}
           = {urls[i].val : i \in 1..Len(urls)}

\* a record with a click was deleted and another record remains: the click
\* of the deleted record is not in the total
C9_Witness ==
    /\ result.op = "deleteUrl"
    /\ result.ret = TRUE
    /\ Logged("CLICK_RECORDED", result.code)
    /\ Len(urls) = 1
    /\ Stats(urls).totalClicks = 0

----------------------------------------------------------------------------
(* SpecValidate: shortenUrl on well-formed and malformed requests *)

MaxRequests == 3

AllRequests ==
    {<<GoodUrl, UndefinedStr>>, <<GoodUrl, CodeEmpty>>, <<GoodUrl, CodeTwo>>,
     <<GoodUrl, CodeAbc>>, <<GoodUrl, CodeDash>>, <<GoodUrl, Code20>>,
     <<GoodUrl, Code21>>, <<BadUrl, UndefinedStr>>, <<BadUrl, CodeTwo>>,
     <<BadUrl, CodeAbc>>}

RequestBudget == Calls(logs) <= MaxRequests

NextValidate ==
    \/ \E r \in AllRequests, d \in Draws, id \in Ids, t \in Clock :
           RequestBudget /\ ShortenUrl(r[1], r[2], d, id, t)
    \/ RequestBudget /\ DeleteUrl(CodeAbc)
    \/ SetWritable(FALSE)

SpecValidate == Init /\ [][NextValidate]_vars

Matches(code) ==
    /\ Len(code) \in MinCodeLength..MaxCodeLength
    /\ \A i \in 1..Len(code) : code[i] \in Alphanumeric

InvalidShortCode == "Custom shortcode must be 3-20 alphanumeric characters"

\* C2 as stated, for calls that pass the URL check: every custom code that
\* does not match ^[A-Za-z0-9]{3,20}$, the empty string included, is refused
\* with the InvalidShortCode error and no record is created.
C2_Original ==
    [][(/\ IsCall("shortenUrl")
        /\ result'.url \in WellFormedUrls
        /\ result'.code # UndefinedStr
        /\ ~Matches(result'.code))
       => /\ ~result'.ret.success
          /\ result'.ret.error = InvalidShortCode
          /\ urls' = urls]_vars

\* C2 as amended: with a valid URL, every non-empty custom code that does not
\* match ^[A-Za-z0-9]{3,20}$ is refused with the InvalidShortCode error and
\* no record is created; the empty string counts as an omitted code, so the
\* call succeeds with a generated code.
C2_NonEmptyInvalidCodeRefused ==
    [][(/\ IsCall("shortenUrl")
        /\ result'.url \in WellFormedUrls
        /\ result'.code # UndefinedStr
        /\ ~Matches(result'.code))
       => IF Len(result'.code) > 0
          THEN /\ ~result'.ret.success
               /\ result'.ret.error = InvalidShortCode
               /\ result'.ret.data = <<>>
               /\ urls' = urls
               /\ storage' = storage
          ELSE /\ result'.ret.success
               /\ ~result'.ret.data[1].customCode
               /\ Len(result'.ret.data[1].shortCode) = GeneratedLength
               /\ Len(urls') = Len(urls) + 1]_vars

\* a 21-character code has just been refused while a record exists
C2_Witness ==
    /\ result.op = "shortenUrl"
    /\ result.code = Code21
    /\ ~result.ret.success
    /\ result.ret.error = InvalidShortCode
    /\ Len(urls) = 1
    /\ Logged("SHORTEN_SUCCESS", Code20)

ValidationErrors ==
    {"Invalid URL format", InvalidShortCode, "Custom shortcode already exists"}

\* C4: a shortenUrl call that fails returns success = false with one of the
\* three validation messages and no data, and leaves the registry and the
\* persisted snapshot as they were; a URL that is not well formed yields
\* 'Invalid URL format' whatever the custom code is.
C4_FailuresAreResults ==
    [][IsCall("shortenUrl")
       => /\ ~result'.ret.success =>
                /\ result'.ret.error \in ValidationErrors
                /\ result'.ret.data = <<>>
                /\ urls' = urls
                /\ storage' = storage
          /\ ~(result'.url \in WellFormedUrls) =>
                /\ ~result'.ret.success
                /\ result'.ret.error = "Invalid URL format"]_vars

\* an invalid URL was refused together with a malformed code, while a record
\* exists that the snapshot does not hold
C4_Witness ==
    /\ result.op = "shortenUrl"
    /\ result.url = BadUrl
    /\ result.code = CodeTwo
    /\ result.ret.error = "Invalid URL format"
    /\ Len(urls) = 1
    /\ storage # Stringify(urls)

----------------------------------------------------------------------------
(* SpecClicks: one short link visited again and again from one browser, one *)
(* visit per millisecond; the link may be deleted once and created again    *)

MaxClicks == 150

Visitor == <<"Mozilla/5.0", "">>

ClicksSoFar == IF MapHas(urls, CodeAbc) THEN MapGet(urls, CodeAbc).clicks ELSE 0

NextClicks ==
    \/ /\ ~MapHas(urls, CodeAbc)
       /\ \E id \in Ids : ShortenUrl(GoodUrl, CodeAbc, <<0, 0, 0, 0, 0, 0>>, id, now + 1)
    \/ /\ MapHas(urls, CodeAbc)
       /\ ClicksSoFar < MaxClicks
       /\ RecordClick(CodeAbc, Visitor[1], Visitor[2], now + 1, now + 1)
    \/ /\ MapHas(urls, CodeAbc)
       /\ ~Logged("DELETE_SUCCESS", CodeAbc)
       /\ DeleteUrl(CodeAbc)

SpecClicks == Init /\ [][NextClicks]_vars

Min(a, b) == IF a < b THEN a ELSE b

\* the position in the log of the event that created the present record
CreationIndex(code) ==
    CHOOSE i \in 1..Len(logs) :
        /\ logs[i].action = "SHORTEN_SUCCESS"
        /\ logs[i].context.shortCode = code
        /\ \A j \in 1..(i - 1) :
               ~(logs[j].action = "SHORTEN_SUCCESS" /\ logs[j].context.shortCode = code)

\* the number of recordClick calls that returned true since the record was created
ClicksSinceCreation(code) ==
    Cardinality({i \in 1..(CreationIndex(code) - 1) :
                    logs[i].action = "CLICK_RECORDED" /\ logs[i].context.shortCode = code})

\* C6: after n successful recordClick calls on a record since its creation,
\* clicks = n and clickHistory holds the min(n, 100) most recent click events,
\* oldest first.  In SpecClicks the k-th click on a record created at time c
\* carries the timestamp c + k.
C6_HistoryKeepsLatest ==
    MapHas(urls, CodeAbc) =>
        LET url == MapGet(urls, CodeAbc)
            n == ClicksSinceCreation(CodeAbc)
            kept == Min(n, 100)
        IN /\ url.clicks = n
           /\ Len(url.clickHistory) = kept
           /\ \A j \in 1..Len(url.clickHistory) :
                  url.clickHistory[j] =
                      [timestamp |-> url.createdAt + (n - kept) + j,
                       userAgent |-> Visitor[1],
                       referrer |-> Visitor[2]]

\* the record has been clicked 150 times: the first 50 clicks are gone
C6_Witness ==
    /\ MapHas(urls, CodeAbc)
    /\ MapGet(urls, CodeAbc).clicks = 150
    /\ Len(MapGet(urls, CodeAbc).clickHistory) = 100
    /\ MapGet(urls, CodeAbc).clickHistory[1].timestamp = MapGet(urls, CodeAbc).createdAt + 51

\* C7: for every record, clicks is a non-negative integer and the length of
\* clickHistory is min(clicks, 100).
C7_HistoryLength ==
    \A i \in 1..Len(urls) :
        /\ urls[i].val.clicks \in Nat
        /\ Len(urls[i].val.clickHistory) = Min(urls[i].val.clicks, 100)

\* clicks has passed 100 while the history stays at 100 entries
C7_Witness ==
    \E i \in 1..Len(urls) :
        /\ urls[i].val.clicks > 100
        /\ Len(urls[i].val.clickHistory) = 100

----------------------------------------------------------------------------
(* SpecStats: a dashboard with more links than the top list holds.  Links   *)
(* are created one per millisecond under the codes u01, u02, ...; the       *)
(* newest link is the one that is visited; few links stay without a visit   *)
(* and few get more than one.                                               *)

MaxLinks == 12
MaxLinkClicks == 2
MaxHot == 2
MaxIdle == 1

StatCode(i) == <<"u", Digits[(i \div 10) + 1], Digits[(i % 10) + 1]>>

Newest == urls[Len(urls)].val

Older == {urls[i].val : i \in 1..(Len(urls) - 1)}

NextStats ==
    \/ /\ Len(urls) < MaxLinks
       /\ Len(urls) > 0 /\ Newest.clicks = 0 =>
              Cardinality({r \in Older : r.clicks = 0}) < MaxIdle
       /\ \E id \in Ids :
              ShortenUrl(GoodUrl, StatCode(Len(urls) + 1), <<0, 0, 0, 0, 0, 0>>, id, now + 1)
    \/ /\ Len(urls) > 0
       /\ Newest.clicks < MaxLinkClicks
       /\ Newest.clicks > 0 => Cardinality({r \in Older : r.clicks > 1}) < MaxHot
       /\ RecordClick(Newest.shortCode, Visitor[1], Visitor[2], now + 1, now + 1)

SpecStats == Init /\ [][NextStats]_vars

Records == {urls[i].val : i \in 1..Len(urls)}

\* C10: getStats().topUrls has at most 10 entries, all of them records of the
\* registry with clicks > 0, no record twice, ordered by clicks descending;
\* it holds every clicked record when there are at most 10, and no record
\* left out has more clicks than a record that is included.
C10_TopUrlsIsTopTen ==
    LET top == Stats(urls).topUrls
        included == {top[i] : i \in 1..Len(top)}
    IN /\ Len(top) <= 10
       /\ Len(top) = Min(10, Cardinality({r \in Records : r.clicks > 0}))
       /\ included \subseteq Records
       /\ Cardinality(included) = Len(top)
       /\ \A i \in 1..Len(top) : top[i].clicks > 0
       /\ \A i, j \in 1..Len(top) : i < j => top[i].clicks >= top[j].clicks
       /\ \A r \in Records \ included : \A i \in 1..Len(top) : r.clicks <= top[i].clicks

\* eleven clicked records and one without clicks: one clicked record is left
\* out, and the list holds records with different numbers of clicks
C10_Witness ==
    LET top == Stats(urls).topUrls
    IN /\ Cardinality({r \in Records : r.clicks > 0}) = 11
       /\ \E r \in Records : r.clicks = 0
       /\ Len(top) = 10
       /\ top[1].clicks > top[10].clicks

----------------------------------------------------------------------------
(* SpecLookup: one custom code and one code that is never created, looked   *)
(* up, clicked, deleted and created again                                   *)

MaxLookups == 4

LookupBudget == Calls(logs) <= MaxLookups

NextLookup ==
    \/ \E id \in Ids, t \in Clock :
           LookupBudget /\ ShortenUrl(GoodUrl, CodeAbc, <<0, 0, 0, 0, 0, 0>>, id, t)
    \/ \E c \in LookupCodes : LookupBudget /\ GetUrl(c)
    \/ \E c \in LookupCodes :
           LookupBudget /\ RecordClick(c, Visitor[1], Visitor[2], now, now)
    \/ \E c \in LookupCodes : LookupBudget /\ DeleteUrl(c)
    \/ SetWritable(FALSE)

SpecLookup == Init /\ [][NextLookup]_vars

\* the events of the log that created or deleted the record of a code, newest first
Lifecycle(code) ==
    SelectSeq(logs, LAMBDA e : /\ e.action \in {"SHORTEN_SUCCESS", "DELETE_SUCCESS"}
                               /\ e.context.shortCode = code)

\* the code was deleted and has not been created since
Deleted(code) ==
    /\ Lifecycle(code) # <<>>
    /\ Lifecycle(code)[1].action = "DELETE_SUCCESS"

\* C11: deleteUrl(c) returns true exactly when c was a key, and c is no key
\* afterwards; while c stays deleted, getUrl(c) returns null, recordClick(c)
\* returns false and a further deleteUrl(c) returns false.
C11_DeleteRemoves ==
    [][/\ IsCall("deleteUrl") =>
              /\ result'.ret = (result'.code \in MapKeys(urls))
              /\ ~(result'.code \in MapKeys(urls'))
       /\ (IsCall("getUrl") /\ Deleted(result'.code)) => result'.ret = <<>>
       /\ (IsCall("recordClick") /\ Deleted(result'.code)) => result'.ret = FALSE
       /\ (IsCall("deleteUrl") /\ Deleted(result'.code)) => result'.ret = FALSE]_vars

\* the code was created, deleted, and the lookup that followed found nothing
C11_Witness ==
    /\ result.op = "getUrl"
    /\ result.code = CodeAbc
    /\ result.ret = <<>>
    /\ Deleted(CodeAbc)

\* C17: getUrl returns the stored record if the code is a key and null
\* otherwise, leaves the registry and the persisted snapshot unchanged, and
\* appends diagnostic events to the log, on a hit as on a miss.
C17_LookupIsRead ==
    [][IsCall("getUrl") =>
          /\ result'.ret = IF result'.code \in MapKeys(urls)
                           THEN <<MapGet(urls, result'.code)>>
                           ELSE <<>>
          /\ urls' = urls
          /\ storage' = storage
          /\ Len(logs') > Len(logs)
          /\ SubSeq(logs', Len(logs') - Len(logs) + 1, Len(logs')) = logs
          /\ logs'[Len(logs') - Len(logs)].action = "URL_LOOKUP"]_vars

\* a hit on a clicked record that the snapshot does not hold
C17_Witness ==
    /\ result.op = "getUrl"
    /\ Len(result.ret) = 1
    /\ result.ret[1].clicks = 1
    /\ storage # Stringify(urls)
    /\ logs[1].action = "URL_LOOKUP"

----------------------------------------------------------------------------
(* SpecLog: the pages record events until the log is full and beyond.  The  *)
(* k-th recorded event carries k in its context; the first events come from *)
(* any of the four levels, the rest are INFO events.                        *)

MaxRecords == 1001
MaxVaried == 2

PageEvent == "PAGE_EVENT"

\* the number of events the pages have recorded
Serial == IF logs[1].action = PageEvent THEN logs[1].context.count ELSE 0

NextLog ==
    \/ Serial < MaxRecords /\ LogInfo(PageEvent, NoCode, Serial + 1)
    \/ Serial < MaxVaried /\ LogWarn(PageEvent, NoCode, Serial + 1)
    \/ Serial < MaxVaried /\ LogError(PageEvent, NoCode, Serial + 1)
    \/ Serial < MaxVaried /\ LogDebug(PageEvent, NoCode, Serial + 1)

SpecLog == Init /\ [][NextLog]_vars

\* C12: the log never holds more than 1000 entries; after n record calls on
\* an empty log (here the two events of start-up and Serial page events)
\* getLogs() returns the min(n, 1000) most recently recorded entries, newest
\* first.
C12_LogKeepsNewest ==
    LET got == getLogs([logs |-> logs, appLogs |-> appLogs])
        n == Serial + 2
    IN /\ Len(got) <= 1000
       /\ Len(got) = Min(n, 1000)
       /\ \A i \in 1..Len(got) :
              IF i <= Serial
              THEN got[i].action = PageEvent /\ got[i].context.count = Serial - i + 1
              ELSE got[i].action = IF i = Serial + 1 THEN "SERVICE_INIT" ELSE "LOGGER_INIT"

\* 1003 entries were recorded: the three oldest are gone
C12_Witness ==
    /\ Serial = 1001
    /\ Len(logs) = 1000
    /\ logs[1000].context.count = 2

----------------------------------------------------------------------------
(* SpecClear: a short log that is written to and cleared, with a storage    *)
(* that fills up and is freed again                                         *)

MaxLogLength == 5

NextClear ==
    \/ Len(logs) < MaxLogLength /\ LogInfo(PageEvent, NoCode, NoCount)
    \/ Len(logs) < MaxLogLength /\ LogWarn(PageEvent, NoCode, NoCount)
    \/ Len(logs) < MaxLogLength /\ LogError(PageEvent, NoCode, NoCount)
    \/ Len(logs) < MaxLogLength /\ LogDebug(PageEvent, NoCode, NoCount)
    \/ ClearLogs
    \/ \E w \in BOOLEAN : SetWritable(w)

SpecClear == Init /\ [][NextClear]_vars

\* C13: when clearLogs() returns, getLogs() has exactly one entry, the
\* CLEAR_LOGS event, and the persisted 'app-logs' snapshot holds nothing but
\* that entry: it is either removed or rewritten with the one new entry.
C13_ClearLeavesOneEvent ==
    [][IsCall("clearLogs") =>
          LET got == getLogs([logs |-> logs', appLogs |-> appLogs'])
          IN /\ Len(got) = 1
             /\ got[1].action = "CLEAR_LOGS"
             /\ got[1].level = "INFO"
             /\ IF appLogs'.present
                THEN appLogs'.entries = got
                ELSE appLogs'.entries = <<>>]_vars

\* the log was cleared while the storage was full and the snapshot held
\* earlier entries
C13_Witness ==
    /\ result.op = "clearLogs"
    /\ ~writable
    /\ ~appLogs.present
    /\ Len(logs) = 1

----------------------------------------------------------------------------
(* Storage failures, in Spec *)

\* the entries the step has put on the log, newest first
NewEntries == SubSeq(logs', 1, Len(logs') - Len(logs))

SaveErrorLogged ==
    \E i \in 1..Len(NewEntries) :
        NewEntries[i].action = "SAVE_STORAGE_ERROR" /\ NewEntries[i].level = "ERROR"

\* C14: while localStorage.setItem throws, a shortenUrl, recordClick or
\* deleteUrl call that passes its checks still returns its normal result,
\* keeps its change of the registry and logs SAVE_STORAGE_ERROR; every call
\* still adds its events to the log buffer; both snapshots stay as they were.
C14_WriteFailureSwallowed ==
    [][~writable =>
          /\ (/\ IsCall("shortenUrl")
              /\ result'.url \in WellFormedUrls
              /\ Truthy(result'.code) =>
                     Matches(result'.code) /\ ~(result'.code \in MapKeys(urls)))
             => /\ result'.ret.success
                /\ Len(urls') = Len(urls) + 1
                /\ urls'[Len(urls')].val = result'.ret.data[1]
                /\ SaveErrorLogged
          /\ (IsCall("recordClick") /\ result'.code \in MapKeys(urls))
             => /\ result'.ret = TRUE
                /\ MapGet(urls', result'.code).clicks = MapGet(urls, result'.code).clicks + 1
                /\ SaveErrorLogged
          /\ (IsCall("deleteUrl") /\ result'.code \in MapKeys(urls))
             => /\ result'.ret = TRUE
                /\ ~(result'.code \in MapKeys(urls'))
                /\ SaveErrorLogged
          /\ result'.op \in {"shortenUrl", "recordClick", "deleteUrl"}
             => /\ storage' = storage
                /\ appLogs' = appLogs
                /\ Len(logs') > Len(logs)
                /\ SubSeq(logs', Len(NewEntries) + 1, Len(logs')) = logs]_vars

\* a click was counted in memory while the write of the snapshot failed
C14_Witness ==
    /\ result.op = "recordClick"
    /\ result.ret = TRUE
    /\ ~writable
    /\ logs[2].action = "SAVE_STORAGE_ERROR"
    /\ MapGet(urls, result.code).clicks = 1
    /\ storage # Stringify(urls)
    /\ appLogs.entries # logs

----------------------------------------------------------------------------
(* SpecStorage: the snapshot against the registry, with a storage that     *)
(* fills up and is freed again, and page reloads                           *)

MaxStorageCalls == 4

Code123 == <<"1","2","3">>
StorageCodes == {CodeAbc, Code123}

StorageBudget == Calls(logs) < MaxStorageCalls

MaxReloads == 1

\* the page loads the log remembers, the first one included
Loads(buffer) == Cardinality({i \in 1..Len(buffer) : buffer[i].action = "SERVICE_INIT"})

NextStorage ==
    \/ \E c \in StorageCodes, id \in Ids :
           StorageBudget /\ ShortenUrl(GoodUrl, c, <<0, 0, 0, 0, 0, 0>>, id, now)
    \/ \E c \in StorageCodes :
           StorageBudget /\ RecordClick(c, Visitor[1], Visitor[2], now, now)
    \/ \E c \in StorageCodes : StorageBudget /\ DeleteUrl(c)
    \/ \E w \in BOOLEAN : SetWritable(w)
    \/ Loads(logs) <= MaxReloads /\ Reload

SpecStorage == Init /\ [][NextStorage]_vars

\* the snapshot holds the records of the mapping, each under its key, and no other
SameMapping(snapshot, m) ==
    /\ snapshot.present
    /\ Len(snapshot.entries) = Len(m)
    /\ {snapshot.entries[i] : i \in 1..Len(snapshot.entries)} = {m[i] : i \in 1..Len(m)}

\* the step is a call that changed the registry
Mutated ==
    \/ IsCall("shortenUrl") /\ result'.ret.success
    \/ IsCall("recordClick") /\ result'.ret = TRUE
    \/ IsCall("deleteUrl") /\ result'.ret = TRUE

\* C15: when a successful shortenUrl, a successful recordClick or a deleteUrl
\* of an existing code writes the snapshot 'shortened-urls', the snapshot
\* holds the whole mapping as it is in memory after the call, whatever
\* writes failed before.
C15_SnapshotFollowsMemory ==
    [][(Mutated /\ writable) => SameMapping(storage', urls')]_vars

\* a write succeeded after an earlier one had failed, with two records in a
\* mapping whose snapshot lists them in another order
C15_Witness ==
    /\ result.op = "recordClick"
    /\ result.ret = TRUE
    /\ writable
    /\ logs[2].action = "SAVE_STORAGE"
    /\ \E i \in 3..Len(logs) : logs[i].action = "SAVE_STORAGE_ERROR"
    /\ Len(urls) = 2
    /\ storage.entries # urls
    /\ SameMapping(storage, urls)

----------------------------------------------------------------------------
(* The events of one shortenUrl call, in SpecValidate *)

OutcomeActions == {"INVALID_URL", "INVALID_SHORTCODE", "SHORTCODE_EXISTS", "SHORTEN_SUCCESS"}

\* how many of the entries are events of one of the actions
CountOf(entries, actions) ==
    Cardinality({i \in 1..Len(entries) : entries[i].action \in actions})

\* the outcome event that goes with a returned value
OutcomeOf(ret) ==
    IF ret.success THEN "SHORTEN_SUCCESS"
    ELSE IF ret.error = "Invalid URL format" THEN "INVALID_URL"
    ELSE IF ret.error = InvalidShortCode THEN "INVALID_SHORTCODE"
    ELSE "SHORTCODE_EXISTS"

\* C16: every shortenUrl call logs SHORTEN_REQUEST once, as its first event,
\* and one outcome event, as its last event: INVALID_URL, INVALID_SHORTCODE or
\* SHORTCODE_EXISTS for the failure it returns, SHORTEN_SUCCESS on success.
C16_OneAttemptOneOutcome ==
    [][IsCall("shortenUrl") =>
          /\ Len(NewEntries) >= 2
          /\ CountOf(NewEntries, {"SHORTEN_REQUEST"}) = 1
          /\ NewEntries[Len(NewEntries)].action = "SHORTEN_REQUEST"
          /\ CountOf(NewEntries, OutcomeActions) = 1
          /\ NewEntries[1].action = OutcomeOf(result'.ret)]_vars

\* a request for a code that is taken was refused, after a request without a
\* code had succeeded with a failing write
C16_Witness ==
    /\ result.op = "shortenUrl"
    /\ ~result.ret.success
    /\ Len(logs) >= 7
    /\ logs[1].action = "SHORTCODE_EXISTS"
    /\ logs[2].action = "SHORTEN_REQUEST"
    /\ \E i \in 3..(Len(logs) - 3) :
           /\ logs[i].action = "SHORTEN_SUCCESS"
           /\ logs[i + 1].action = "SAVE_STORAGE_ERROR"
           /\ logs[i + 2].action = "SHORTCODE_GENERATED"
           /\ logs[i + 3].action = "SHORTEN_REQUEST"

----------------------------------------------------------------------------
(* SpecOrder: getAllUrls on registries built in any order of creation,      *)
(* deletion and reload                                                      *)

MaxEvents == 13

OrderCodes == {CodeAbc, Code123, UndefinedStr}

EventBudget == Len(logs) < MaxEvents

NextOrder ==
    \/ \E c \in OrderCodes, id \in Ids, t \in Clock :
           EventBudget /\ ShortenUrl(GoodUrl, c, <<0, 0, 0, 0, 0, 0>>, id, t)
    \/ \E c \in {CodeAbc, Code123} : EventBudget /\ DeleteUrl(c)
    \/ EventBudget /\ GetAllUrls
    \/ EventBudget /\ Reload

SpecOrder == Init /\ [][NextOrder]_vars

\* C18: getAllUrls returns each record of the registry at exactly one
\* position, no position holds a record with a later createdAt than the
\* position before it, and the registry and its snapshot stay as they were.
C18_AllUrlsNewestFirst ==
    [][IsCall("getAllUrls") =>
          LET all == result'.ret
          IN /\ Len(all) = Len(urls)
             /\ \A k \in 1..Len(urls) :
                    Cardinality({i \in 1..Len(all) : all[i] = urls[k].val}) = 1
             /\ \A i \in 1..Len(all), j \in 1..Len(all) :
                    i < j => all[i].createdAt >= all[j].createdAt
             /\ urls' = urls
             /\ storage' = storage]_vars

\* three records were returned, two of them created at the same time, the
\* newest first although it is the last one of the mapping
C18_Witness ==
    /\ result.op = "getAllUrls"
    /\ Len(result.ret) = 3
    /\ result.ret[1] = urls[3].val
    /\ result.ret[1].createdAt > result.ret[2].createdAt
    /\ result.ret[2].createdAt = result.ret[3].createdAt

----------------------------------------------------------------------------
(* SpecLoad: page loads that find a damaged snapshot *)

MaxLoadCalls == 4

LoadBudget == Calls(logs) < MaxLoadCalls

NextLoad ==
    \/ \E id \in Ids :
           LoadBudget /\ ShortenUrl(GoodUrl, CodeAbc, <<0, 0, 0, 0, 0, 0>>, id, now)
    \/ LoadBudget /\ GetUrl(CodeAbc)
    \/ LoadBudget /\ RecordClick(CodeAbc, Visitor[1], Visitor[2], now, now)
    \/ LoadBudget /\ DeleteUrl(CodeAbc)
    \/ CorruptStorage
    \/ \E w \in BOOLEAN : SetWritable(w)
    \/ Loads(logs) <= MaxReloads /\ Reload

SpecLoad == Init /\ [][NextLoad]_vars

\* C19: a page load that finds an unparsable 'shortened-urls' snapshot
\* completes with an empty registry and logs LOAD_STORAGE_ERROR, then
\* SERVICE_INIT with count 0; while the damaged snapshot is in place the
\* operations behave as on any registry: shortenUrl of a free code succeeds
\* and, when the write succeeds, replaces the snapshot by the mapping; getUrl,
\* recordClick and deleteUrl answer by whether the code is a key.
C19_LoadFailureStartsEmpty ==
    [][storage = Unparsable =>
          /\ IsCall("construct") =>
                 /\ result'.ret = TRUE
                 /\ urls' = <<>>
                 /\ logs'[1].action = "SERVICE_INIT"
                 /\ logs'[1].context.count = 0
                 /\ logs'[2].action = "LOAD_STORAGE_ERROR"
                 /\ logs'[2].level = "ERROR"
          /\ IsCall("shortenUrl") =>
                 /\ result'.ret.success = ~MapHas(urls, result'.code)
                 /\ result'.ret.success => MapHas(urls', result'.code)
                 /\ (result'.ret.success /\ writable) => SameMapping(storage', urls')
          /\ IsCall("getUrl") => (result'.ret # <<>>) = MapHas(urls, result'.code)
          /\ IsCall("recordClick") => result'.ret = MapHas(urls, result'.code)
          /\ IsCall("deleteUrl") => result'.ret = MapHas(urls, result'.code)]_vars

\* a link was created, the snapshot was damaged, the page was loaded again,
\* and the same code was then free and has been taken anew
C19_Witness ==
    /\ result.op = "shortenUrl"
    /\ result.ret.success
    /\ Len(urls) = 1
    /\ storage = Stringify(urls)
    /\ \E i \in 1..Len(logs), j \in 1..Len(logs) :
           /\ i < j
           /\ logs[i].action = "LOAD_STORAGE_ERROR"
           /\ logs[j].action = "SHORTEN_SUCCESS"

----------------------------------------------------------------------------
(* The life of a record, in Spec *)

\* the fields a record keeps for life
Identity(r) == <<r.id, r.originalUrl, r.shortCode, r.customCode, r.createdAt>>

\* C20: a record that is in the registry before and after a step keeps its
\* id, originalUrl, shortCode, customCode and createdAt, its clicks do not
\* decrease, and it differs at all only after a successful recordClick on its
\* own code; a record that is gone after the step was removed by deleteUrl on
\* its own code.
C20_RecordLifecycle ==
    [][\A k \in MapKeys(urls) :
          IF MapHas(urls', k)
          THEN LET before == MapGet(urls, k)
                   after == MapGet(urls', k)
               IN /\ Identity(after) = Identity(before)
                  /\ after.clicks >= before.clicks
                  /\ after # before =>
                         /\ IsCall("recordClick")
                         /\ result'.code = k
                         /\ result'.ret = TRUE
                         /\ after = [before EXCEPT !.clicks = after.clicks,
                                                   !.lastAccessed = after.lastAccessed,
                                                   !.clickHistory = after.clickHistory]
          ELSE IsCall("deleteUrl") /\ result'.code = k]_vars

\* of two records, the older one was clicked and the newer one deleted: the
\* older one is still there with its click
C20_Witness ==
    /\ result.op = "deleteUrl"
    /\ result.ret = TRUE
    /\ Len(urls) = 1
    /\ urls[1].key # result.code
    /\ urls[1].val.clicks = 1
    /\ Len(urls[1].val.clickHistory) = 1

----------------------------------------------------------------------------
(* SpecDraw: shortenUrl without a custom code, one pass of its loop at a    *)
(* time, with a random source that yields the draws of Draws.  A handler    *)
(* runs to its end before the next one starts, so nothing else happens      *)
(* while a call is in its loop.  Every value of the random source comes up  *)
(* again and again.                                                         *)

MaxDrawCalls == 4

DrawBudget == Calls(logs) < MaxDrawCalls

\* the codes the random source can produce
Namespace == {generateShortCode(d) : d \in Draws}

NamespaceFull == Namespace \subseteq MapKeys(urls)

NextDraw ==
    \/ ~pending.active /\ DrawBudget /\ BeginShorten(GoodUrl)
    \/ \E d \in Draws, id \in Ids : Draw(d, id, now)
    \/ \E c \in Namespace : ~pending.active /\ DrawBudget /\ DeleteUrl(c)
    \/ ~pending.active /\ SetWritable(FALSE)

SpecDraw ==
    /\ Init
    /\ [][NextDraw]_vars
    /\ \A d \in Draws : WF_vars(\E id \in Ids : Draw(d, id, now))

\* C21: a shortenUrl call without a custom code that is in its loop returns
\* in the end when a code of the namespace is free, and it returns success
\* with a code that was free; when every code is taken it stays in the loop:
\* it returns nothing, logs nothing and changes nothing.
C21_LoopEndsIffCodeFree ==
    /\ (pending.active /\ ~NamespaceFull) ~> ~pending.active
    /\ [][pending.active =>
            IF NamespaceFull
            THEN /\ pending'.active
                 /\ UNCHANGED <<urls, storage, logs, appLogs, result>>
            ELSE ~pending'.active =>
                     /\ result'.ret.success
                     /\ ~MapHas(urls, result'.ret.data[1].shortCode)
                     /\ MapHas(urls', result'.ret.data[1].shortCode)]_vars

\* the loop has drawn a code, found it taken, and every code is taken
C21_Witness ==
    /\ pending.active
    /\ NamespaceFull
    /\ pending.candidate \in Namespace
    /\ logs[1].action = "SHORTEN_REQUEST"

----------------------------------------------------------------------------
(* lastAccessed against clicks, in SpecStorage *)

RangeOf(seq) == {seq[i] : i \in 1..Len(seq)}

\* C22: every record of the registry has lastAccessed set exactly when its
\* clicks are above 0, so getStats selects the same records for
\* recentActivity as for topUrls.
C22_AccessedIffClicked ==
    /\ \A i \in 1..Len(urls) :
           (urls[i].val.lastAccessed # NoTime) = (urls[i].val.clicks > 0)
    /\ LET all == AllUrls(urls)
       IN SelectSeq(all, LAMBDA url : url.lastAccessed # NoTime)
              = SelectSeq(all, LAMBDA url : url.clicks > 0)
    /\ Len(urls) <= TopCount =>
           RangeOf(Stats(urls).recentActivity) = RangeOf(Stats(urls).topUrls)

\* a page load has brought back two records, one clicked and one not
C22_Witness ==
    /\ result.op = "construct"
    /\ Len(urls) = 2
    /\ \E i, j \in 1..2 :
           /\ urls[i].val.clicks = 1
           /\ urls[i].val.lastAccessed # NoTime
           /\ urls[j].val.clicks = 0
           /\ urls[j].val.lastAccessed = NoTime
    /\ Len(Stats(urls).recentActivity) = 1

----------------------------------------------------------------------------
(* Persist, then reload, in SpecStorage *)

WriteEvents == {"SAVE_STORAGE", "SAVE_STORAGE_ERROR", "SERVICE_INIT"}

\* the registry of this page has written its snapshot, and its last write
\* succeeded
LastWriteSucceeded ==
    \E i \in 1..Len(logs) :
        /\ logs[i].action = "SAVE_STORAGE"
        /\ \A j \in 1..(i - 1) : ~(logs[j].action \in WriteEvents)

\* what the four calls return on a mapping, on the same log and storage
Answers(m, code) ==
    LET ls == [logs |-> <<>>, appLogs |-> NoSnapshot]
        clicked == recordClick(m, NoSnapshot, ls, TRUE, code, Visitor[1], Visitor[2], 1, 1)
        deleted == deleteUrl(m, NoSnapshot, ls, TRUE, code)
    IN [getUrl |-> getUrl(m, ls, TRUE, code).ret,
        shortenUrl |-> shortenUrl(m, NoSnapshot, ls, TRUE, GoodUrl, code,
                                  <<0, 0, 0, 0, 0, 0>>, "k3j9x0q1z", 1).ret,
        recordClick |-> clicked.ret,
        clickedRecords |-> RangeOf(clicked.urls),
        deleteUrl |-> deleted.ret,
        remainingRecords |-> RangeOf(deleted.urls)]

\* C23: when the last write of the snapshot succeeded, a page load builds a
\* registry with the same short codes and, under each, a record equal in
\* every field; getUrl, shortenUrl with that code as custom code, recordClick
\* and deleteUrl return on it what they return on the registry before the
\* load and leave the same records.
C23_ReloadRoundTrip ==
    [][(IsCall("construct") /\ LastWriteSucceeded) =>
          /\ MapKeys(urls') = MapKeys(urls)
          /\ Len(urls') = Len(urls)
          /\ \A k \in MapKeys(urls) : MapGet(urls', k) = MapGet(urls, k)
          /\ \A c \in StorageCodes : Answers(urls', c) = Answers(urls, c)]_vars

\* a page load has brought back two records in another order than they were
\* created in, the clicked one with its history
C23_Witness ==
    /\ result.op = "construct"
    /\ Len(urls) = 2
    /\ urls[1].key = Code123
    /\ urls[2].key = CodeAbc
    /\ \E i, j \in 1..Len(logs) :
           /\ i < j
           /\ logs[i].action = "SHORTEN_SUCCESS" /\ logs[i].context.shortCode = Code123
           /\ logs[j].action = "SHORTEN_SUCCESS" /\ logs[j].context.shortCode = CodeAbc
    /\ \E i \in 1..2 : Len(urls[i].val.clickHistory) = 1
    /\ logs[2].action = "LOAD_STORAGE"
    /\ logs[4].action = "CLICK_RECORDED"

----------------------------------------------------------------------------
(* SpecVisit: visits of the redirect route, between creations and deletions *)

MaxVisitCalls == 7

VisitBudget == Calls(logs) < MaxVisitCalls

NextVisit ==
    \/ \E id \in Ids :
           VisitBudget /\ ShortenUrl(GoodUrl, CodeAbc, <<0, 0, 0, 0, 0, 0>>, id, now)
    \/ \E c \in LookupCodes :
           VisitBudget /\ Visit(c, Visitor[1], Visitor[2], now, now)
    \/ VisitBudget /\ DeleteUrl(CodeAbc)
    \/ SetWritable(FALSE)

SpecVisit == Init /\ [][NextVisit]_vars

\* C24: a visit of the route of an existing code records exactly one click,
\* and the totalClicks it logs with REDIRECT_CLICK_RECORDED and shows on the
\* page is the clicks of the record after that click; a visit for a code that
\* is no key records no click and starts no redirect.
C24_VisitCountsOnce ==
    [][IsCall("visit") =>
          IF MapHas(urls, result'.code)
          THEN LET before == MapGet(urls, result'.code)
                   after == MapGet(urls', result'.code)
               IN /\ after.clicks = before.clicks + 1
                  /\ Len(after.clickHistory) = Len(before.clickHistory) + 1
                  /\ CountOf(NewEntries, {"URL_LOOKUP"}) = 1
                  /\ CountOf(NewEntries, {"CLICK_RECORDED"}) = 1
                  /\ result'.ret.redirect = after.originalUrl
                  /\ logs'[1].action = "REDIRECT_CLICK_RECORDED"
                  /\ logs'[1].context.count = after.clicks
                  /\ result'.ret.totalClicks = after.clicks
          ELSE /\ urls' = urls
               /\ result'.ret.notFound
               /\ result'.ret.redirect = Undefined
               /\ CountOf(NewEntries, {"RECORD_CLICK"}) = 0]_vars

====
